---- MODULE Spec2Model ----
(***************************************************************************)
(* Model of DeepgramService (src/utils/deepgram.js): the streaming session *)
(* (connect / channel events / reconnection timers / close), the message   *)
(* classifier, the speaker-label allocator, the batch transcription path   *)
(* and the event emitter.                                                  *)
(*                                                                         *)
(* The runtime is single-threaded and event-driven: every handler runs to  *)
(* completion, so each handler is one action.  The environment (browser    *)
(* WebSocket objects, timers, the caller) chooses which handler runs next. *)
(***************************************************************************)
EXTENDS Integers, Sequences, FiniteSets, TLC

(***************************************************************************)
(* Bounds of the model.                                                    *)
(***************************************************************************)
\* channels (WebSocket objects) one run may create
MaxChannels == 4
\* channels one run of the full specification Spec may create
MaxStreamChannels == 2
\* callbacks registered in total with on()
MaxListeners == 1
\* largest raw speaker id the backend sends on the streaming/batch paths
MaxSpeakerId == 1
\* largest raw speaker id presented to the allocator in SpecLabels
MaxWideId == 11
\* callbacks registered in total with on() in SpecEmit
MaxEmitListeners == 3
\* longest word list of a batch response in SpecBatch
MaxWords == 3
\* largest raw speaker id in the word lists of SpecBatch
MaxBatchSpeaker == 2

(***************************************************************************)
(* Program constants.                                                      *)
(***************************************************************************)
maxReconnectAttempts == 3
NormalClosure == 1000
BackoffUnit == 2000

\* this.socket = null
NoSocket == 0
\* a word entry without a speaker field
NoSpeaker == -1

SpeakerIds == 0..MaxSpeakerId
WideIds == 0..MaxWideId
\* close codes a close event can carry: normal, going away, abnormal
CloseCodes == {NormalClosure, 1001, 1006}
\* the code of the close event that follows an error event (no close frame
\* was received: the WebSocket protocol's "abnormal closure")
AbnormalCode == 1006
EventNames == {"transcript", "error"}
\* a registered callback either returns or throws
Callbacks == {"ok", "bad"}
\* the callbacks of SpecEmit: two that return, one that throws
EmitCallbacks == {"ok", "ok2", "bad"}

VARIABLES
  socket,             \* this.socket: NoSocket or the id of a channel
  isConnected,        \* this.isConnected
  reconnectAttempts,  \* this.reconnectAttempts
  speakerMap,         \* this.speakerMap: raw speaker id -> label
  listeners,          \* this.listeners: event name -> callbacks in order
  chans,              \* WebSocket objects that can still fire events
  nextChan,           \* id of the next WebSocket object to be created
  timers,             \* delays of the pending setTimeout callbacks, in scheduling order
  out,                \* what the last handler did that its caller can observe
  firstSeen,          \* history: ids looked up since the table was last emptied, first-seen order
  session,            \* history: "idle", "active" (caller connect()), "closed" (close())
  sessionLabels,      \* history: label of the events emitted for each id in this session
  abnormalRun,        \* history: consecutive close events with code # 1000
  failedRun,          \* history: the same, also reset by an open event
  sinceOpen           \* history: close events with code # 1000 since the last open event

vars == <<socket, isConnected, reconnectAttempts, speakerMap, listeners, chans,
          nextChan, timers, out, firstSeen, session, sessionLabels,
          abnormalRun, failedRun, sinceOpen>>

histCap == maxReconnectAttempts + 1
NoLabel == "none"
EmptyMap == [i \in {} |-> NoLabel]

Min(S) == CHOOSE x \in S : \A y \in S : x <= y
Max(S) == CHOOSE x \in S : \A y \in S : y <= x

(***************************************************************************)
(* The observable outcome of a handler.                                    *)
(***************************************************************************)
Out(op, arg, emitted, invoked, threw, settle, ret) ==
  [op |-> op, arg |-> arg, emitted |-> emitted, invoked |-> invoked,
   threw |-> threw, settle |-> settle, ret |-> ret]

(***************************************************************************)
(* emit(event, data): the callbacks of the event run in registration order *)
(* until one throws; the exception leaves emit.                            *)
(***************************************************************************)
\* mutant: a callback's exception is caught and the next callback runs
Emit_CatchesAndContinues(event) ==
  [invoked |-> listeners[event], threw |-> FALSE]

Emit(event) ==
  LET cbs == listeners[event]
      bad == {i \in 1..Len(cbs) : cbs[i] = "bad"}
  IN  IF bad = {} THEN [invoked |-> cbs, threw |-> FALSE]
      ELSE [invoked |-> SubSeq(cbs, 1, Min(bad)), threw |-> TRUE]

(***************************************************************************)
(* getSpeakerLabel(speakerId)                                              *)
(***************************************************************************)
labels == <<"A", "B", "C", "D", "E", "F", "G", "H", "I", "J">>

SpeakerLabelAt(index) ==
  IF index < Len(labels) THEN "Speaker " \o labels[index + 1]
  ELSE "Speaker " \o ToString(index)

\* mutant: past the alphabet the raw id is used, not the allocation index
GetSpeakerLabel_RawIdFallback(map, speakerId) ==
  LET index == Cardinality(DOMAIN map)
      newMap == IF speakerId \in DOMAIN map THEN map
                ELSE map @@ (speakerId :> (IF index < Len(labels) THEN SpeakerLabelAt(index)
                                           ELSE "Speaker " \o ToString(speakerId)))
  IN  [map |-> newMap, label |-> newMap[speakerId]]

GetSpeakerLabel(map, speakerId) ==
  LET newMap == IF speakerId \in DOMAIN map THEN map
                ELSE map @@ (speakerId :> SpeakerLabelAt(Cardinality(DOMAIN map)))
  IN  [map |-> newMap, label |-> newMap[speakerId]]

\* history of first lookups
Seen(seen, speakerId) ==
  IF \E i \in 1..Len(seen) : seen[i] = speakerId THEN seen ELSE Append(seen, speakerId)

(***************************************************************************)
(* Initial state: the constructor.                                         *)
(***************************************************************************)
Init ==
  /\ socket = NoSocket
  /\ isConnected = FALSE
  /\ reconnectAttempts = 0
  /\ speakerMap = EmptyMap
  /\ listeners = [e \in EventNames |-> <<>>]
  /\ chans = [c \in {} |-> [st |-> "closed", opened |-> FALSE, promise |-> "pending"]]
  /\ nextChan = 1
  /\ timers = <<>>
  /\ out = Out("new", 0, <<>>, <<>>, FALSE, "none", "")
  /\ firstSeen = <<>>
  /\ session = "idle"
  /\ sessionLabels = [i \in SpeakerIds |-> NoLabel]
  /\ abnormalRun = 0
  /\ failedRun = 0
  /\ sinceOpen = 0

(***************************************************************************)
(* on(event, callback)                                                     *)
(***************************************************************************)
\* on() while fewer than limit callbacks are registered in total
Register(event, callback, limit) ==
  /\ Len(listeners["transcript"]) + Len(listeners["error"]) < limit
  /\ listeners' = [listeners EXCEPT ![event] = Append(@, callback)]
  /\ out' = Out("on", 0, <<>>, <<>>, FALSE, "none", "")
  /\ UNCHANGED <<socket, isConnected, reconnectAttempts, speakerMap, chans, nextChan,
                 timers, firstSeen, session, sessionLabels, abnormalRun, failedRun,
                 sinceOpen>>

On(event, callback) == Register(event, callback, MaxListeners)

(***************************************************************************)
(* connect(): the promise executor creates the WebSocket, stores it in     *)
(* this.socket and installs the four handlers.  A socket that this.socket  *)
(* referred to before is neither closed nor detached.                      *)
(***************************************************************************)
NewChannel == [st |-> "connecting", opened |-> FALSE, promise |-> "pending"]

ConnectBody(budget) ==
  /\ nextChan <= budget
  /\ chans' = chans @@ (nextChan :> NewChannel)
  /\ socket' = nextChan
  /\ nextChan' = nextChan + 1

Connect(budget) ==
  /\ ConnectBody(budget)
  /\ session' = "active"
  /\ sessionLabels' = [i \in SpeakerIds |-> NoLabel]
  /\ out' = Out("connect", nextChan, <<>>, <<>>, FALSE, "none", "")
  /\ UNCHANGED <<isConnected, reconnectAttempts, speakerMap, listeners, timers,
                 firstSeen, abnormalRun, failedRun, sinceOpen>>

(***************************************************************************)
(* socket.onopen                                                           *)
(***************************************************************************)
\* mutant: the open handler leaves the counter as it is
OnOpen_KeepsCounter(c) ==
  /\ c \in DOMAIN chans
  /\ chans[c].st = "connecting"
  /\ chans' = [chans EXCEPT ![c].st = "open", ![c].opened = TRUE, ![c].promise = "resolved"]
  /\ isConnected' = TRUE
  /\ reconnectAttempts' = reconnectAttempts
  /\ failedRun' = 0
  /\ sinceOpen' = 0
  /\ out' = Out("onopen", c, <<>>, <<>>, FALSE, "resolve", "")
  /\ UNCHANGED <<socket, speakerMap, listeners, nextChan, timers, firstSeen, session,
                 sessionLabels, abnormalRun>>

OnOpen(c) ==
  /\ c \in DOMAIN chans
  /\ chans[c].st = "connecting"
  /\ chans' = [chans EXCEPT ![c].st = "open", ![c].opened = TRUE, ![c].promise = "resolved"]
  /\ isConnected' = TRUE
  /\ reconnectAttempts' = 0
  /\ failedRun' = 0
  /\ sinceOpen' = 0
  /\ out' = Out("onopen", c, <<>>, <<>>, FALSE, "resolve", "")
  /\ UNCHANGED <<socket, speakerMap, listeners, nextChan, timers, firstSeen, session,
                 sessionLabels, abnormalRun>>

(***************************************************************************)
(* socket.onerror: emit('error', error), then reject(error).  A callback   *)
(* that throws ends the handler before reject is reached.  reject on a     *)
(* promise that is already settled has no effect.  The browser reports an  *)
(* error once per socket, with readyState CLOSED, and the close event      *)
(* follows.                                                                *)
(***************************************************************************)
\* the payload of emit('error', error)
ErrorEvent == [event |-> "error"]

Settle(promise, how) == IF promise = "pending" THEN how ELSE promise

OnError(c) ==
  /\ c \in DOMAIN chans
  /\ chans[c].st \in {"connecting", "open", "closing"}
  /\ LET e == Emit("error")
     IN  /\ chans' = [chans EXCEPT ![c].st = "errored",
                        ![c].promise = IF e.threw THEN @ ELSE Settle(@, "rejected")]
         /\ out' = Out("onerror", c, <<ErrorEvent>>, e.invoked, e.threw,
                       IF e.threw THEN "none" ELSE "reject", "")
  /\ UNCHANGED <<socket, isConnected, reconnectAttempts, speakerMap, listeners, nextChan,
                 timers, firstSeen, session, sessionLabels, abnormalRun, failedRun,
                 sinceOpen>>

(***************************************************************************)
(* attemptReconnect(): the counter is incremented, then the timer is set   *)
(* with a delay of 2000 * counter.                                         *)
(***************************************************************************)
\* mutant: the delay doubles with every attempt
AttemptReconnect_Exponential ==
  /\ reconnectAttempts' = reconnectAttempts + 1
  /\ timers' = Append(timers, BackoffUnit * 2 ^ (reconnectAttempts' - 1))

AttemptReconnect ==
  /\ reconnectAttempts' = reconnectAttempts + 1
  /\ timers' = Append(timers, BackoffUnit * reconnectAttempts')

(***************************************************************************)
(* socket.onclose.  A socket that never opened closes only after its       *)
(* error event; the close event after an error carries code 1006.          *)
(***************************************************************************)
\* mutant: the close code is not looked at
ShouldReconnect_AnyCode(code) ==
  reconnectAttempts < maxReconnectAttempts

\* mutant: the ceiling is compared with <=
ShouldReconnect_OffByOne(code) ==
  code # NormalClosure /\ reconnectAttempts <= maxReconnectAttempts

\* mutant: the ceiling is not looked at
ShouldReconnect_NoCeiling(code) ==
  code # NormalClosure

ShouldReconnect(code) ==
  code # NormalClosure /\ reconnectAttempts < maxReconnectAttempts

Bump(n) == IF n < histCap THEN n + 1 ELSE n

OnClose(c, code) ==
  /\ c \in DOMAIN chans
  /\ \/ chans[c].st = "open"
     \/ chans[c].st = "closing" /\ chans[c].opened
     \/ chans[c].st = "errored" /\ code = AbnormalCode
  /\ chans' = [d \in DOMAIN chans \ {c} |-> chans[d]]
  /\ isConnected' = FALSE
  /\ IF ShouldReconnect(code) THEN AttemptReconnect
     ELSE UNCHANGED <<reconnectAttempts, timers>>
  /\ abnormalRun' = IF code # NormalClosure THEN Bump(abnormalRun) ELSE 0
  /\ failedRun' = IF code # NormalClosure THEN Bump(failedRun) ELSE 0
  /\ sinceOpen' = IF code # NormalClosure THEN Bump(sinceOpen) ELSE sinceOpen
  /\ out' = Out("onclose", code, <<>>, <<>>, FALSE, "none", "")
  /\ UNCHANGED <<socket, speakerMap, listeners, nextChan, firstSeen, session, sessionLabels>>

(***************************************************************************)
(* The setTimeout callback of attemptReconnect: await this.connect() in a  *)
(* try/catch that logs a rejection.  A timer fires after every timer that  *)
(* was set before it with a delay not larger than its own.                 *)
(***************************************************************************)
CanFire(i) ==
  /\ i \in 1..Len(timers)
  /\ \A j \in 1..(i - 1) : timers[j] > timers[i]

RemoveAt(s, i) == SubSeq(s, 1, i - 1) \o SubSeq(s, i + 1, Len(s))

TimerFire(i, budget) ==
  /\ CanFire(i)
  /\ ConnectBody(budget)
  /\ timers' = RemoveAt(timers, i)
  /\ out' = Out("timer", timers[i], <<>>, <<>>, FALSE, "none", "")
  /\ UNCHANGED <<isConnected, reconnectAttempts, speakerMap, listeners, firstSeen,
                 session, sessionLabels, abnormalRun, failedRun, sinceOpen>>

(***************************************************************************)
(* close(): socket.close(1000, 'Session ended') moves a CONNECTING or OPEN *)
(* socket to CLOSING and does nothing to a CLOSING or CLOSED one.          *)
(***************************************************************************)
SocketClose(cs, c) ==
  IF c \in DOMAIN cs /\ cs[c].st \in {"connecting", "open"}
  THEN [cs EXCEPT ![c].st = "closing"]
  ELSE cs

\* mutant: the table is not emptied
Close_KeepsMap ==
  /\ chans' = IF socket # NoSocket THEN SocketClose(chans, socket) ELSE chans
  /\ socket' = NoSocket
  /\ isConnected' = FALSE
  /\ session' = "closed"
  /\ sessionLabels' = [i \in SpeakerIds |-> NoLabel]
  /\ out' = Out("close", 0, <<>>, <<>>, FALSE, "none", "")
  /\ UNCHANGED <<reconnectAttempts, speakerMap, firstSeen, listeners, nextChan, timers,
                 abnormalRun, failedRun, sinceOpen>>

\* mutant: the pending reconnection timers are cleared
Close_CancelsTimers ==
  /\ chans' = IF socket # NoSocket THEN SocketClose(chans, socket) ELSE chans
  /\ socket' = NoSocket
  /\ isConnected' = FALSE
  /\ speakerMap' = EmptyMap
  /\ firstSeen' = <<>>
  /\ session' = "closed"
  /\ sessionLabels' = [i \in SpeakerIds |-> NoLabel]
  /\ timers' = <<>>
  /\ out' = Out("close", 0, <<>>, <<>>, FALSE, "none", "")
  /\ UNCHANGED <<reconnectAttempts, listeners, nextChan, abnormalRun, failedRun, sinceOpen>>

Close ==
  /\ chans' = IF socket # NoSocket THEN SocketClose(chans, socket) ELSE chans
  /\ socket' = NoSocket
  /\ isConnected' = FALSE
  /\ speakerMap' = EmptyMap
  /\ firstSeen' = <<>>
  /\ session' = "closed"
  /\ sessionLabels' = [i \in SpeakerIds |-> NoLabel]
  /\ out' = Out("close", 0, <<>>, <<>>, FALSE, "none", "")
  /\ UNCHANGED <<reconnectAttempts, listeners, nextChan, timers, abnormalRun, failedRun,
                 sinceOpen>>

(***************************************************************************)
(* labelFor: getSpeakerLabel called by the user of the session.            *)
(***************************************************************************)
LabelFor(speakerId) ==
  /\ LET r == GetSpeakerLabel(speakerMap, speakerId)
     IN  /\ speakerMap' = r.map
         /\ out' = Out("labelFor", speakerId, <<>>, <<>>, FALSE, "none", r.label)
  /\ firstSeen' = Seen(firstSeen, speakerId)
  /\ UNCHANGED <<socket, isConnected, reconnectAttempts, listeners, chans, nextChan,
                 timers, session, sessionLabels, abnormalRun, failedRun, sinceOpen>>

(***************************************************************************)
(* sendAudio(audioBuffer): sent when this.socket exists and its readyState *)
(* is OPEN, a warning otherwise.                                           *)
(***************************************************************************)
\* mutant: any socket that has not closed counts as open
ReadyStateOpen_NotClosed(c) == c \in DOMAIN chans

ReadyStateOpen(c) == c \in DOMAIN chans /\ chans[c].st = "open"

SendAudio ==
  /\ out' = IF socket # NoSocket /\ ReadyStateOpen(socket)
            THEN Out("sendAudio", socket, <<>>, <<>>, FALSE, "none", "sent")
            ELSE Out("sendAudio", NoSocket, <<>>, <<>>, FALSE, "none", "warn")
  /\ UNCHANGED <<socket, isConnected, reconnectAttempts, speakerMap, listeners, chans,
                 nextChan, timers, firstSeen, session, sessionLabels, abnormalRun,
                 failedRun, sinceOpen>>

(***************************************************************************)
(* Incoming streaming messages.  kind: "garbage" does not parse, "null"    *)
(* parses to a value without properties, "object" parses to an object.     *)
(* shape: what parsed.channel?.alternatives?.[0] finds.  A word carries a  *)
(* speaker id or NoSpeaker.                                                *)
(***************************************************************************)
Word(text, punct, speaker) == [word |-> text, punctuated_word |-> punct, speaker |-> speaker]

StreamWordLists ==
  {<<>>, <<Word("w", "", NoSpeaker)>>, <<Word("w", "", 1), Word("v", "", 0)>>}
  \cup {<<Word("w", "", i)>> : i \in SpeakerIds}

Msg(kind, type, shape, transcript, confidence, is_final, hasWords, words) ==
  [kind |-> kind, type |-> type, shape |-> shape, transcript |-> transcript,
   confidence |-> confidence, is_final |-> is_final, hasWords |-> hasWords,
   words |-> words]

Msgs ==
  {Msg("garbage", "", "nochannel", "", 0, FALSE, FALSE, <<>>),
   Msg("null", "", "nochannel", "", 0, FALSE, FALSE, <<>>),
   Msg("object", "Metadata", "nochannel", "", 0, FALSE, FALSE, <<>>),
   Msg("object", "Metadata", "alt", "hello", 90, TRUE, TRUE, <<Word("w", "", 1)>>),
   Msg("object", "Results", "nochannel", "", 0, TRUE, FALSE, <<>>),
   Msg("object", "Results", "emptyalts", "", 0, TRUE, FALSE, <<>>),
   Msg("object", "Results", "alt", "", 90, TRUE, TRUE, <<Word("w", "", 1)>>),
   Msg("object", "Results", "alt", "hello", 90, FALSE, TRUE, <<Word("w", "", 1)>>),
   Msg("object", "Results", "alt", "hello", 90, TRUE, FALSE, <<>>)}
  \cup {Msg("object", "Results", "alt", "hello", 90, TRUE, TRUE, ws) : ws \in StreamWordLists}
  \cup {Msg("object", "", "alt", "bye", 50, TRUE, TRUE, <<Word("w", "", i)>>) : i \in SpeakerIds}

TranscriptEvent(text, speaker, speakerId, confidence) ==
  [event |-> "transcript", text |-> text, speaker |-> speaker, speakerId |-> speakerId,
   confidence |-> confidence, is_final |-> TRUE]

\* mutant: the speaker of the last word
FirstSpeaker_Last(words) ==
  IF words = <<>> \/ words[Len(words)].speaker = NoSpeaker THEN 0
  ELSE words[Len(words)].speaker

\* words[0]?.speaker ?? 0
FirstSpeaker(words) ==
  IF words = <<>> \/ words[1].speaker = NoSpeaker THEN 0 ELSE words[1].speaker

(***************************************************************************)
(* handleMessage(data).  The result is the new table, the events passed to *)
(* emit and the callbacks emit invoked.  Everything thrown inside, by the  *)
(* parser, by a property read of null or by a callback, is caught and      *)
(* logged.  The timestamp of the event is left out.                        *)
(***************************************************************************)
NoEffect(map) ==
  [map |-> map, emitted |-> <<>>, invoked |-> <<>>, looked |-> <<>>, threw |-> FALSE]

\* the emission of handleMessage
EmitTranscript(map, data) ==
  LET words == IF data.hasWords THEN data.words ELSE <<>>
      speakerId == FirstSpeaker(words)
      r == GetSpeakerLabel(map, speakerId)
  IN  [map |-> r.map,
       emitted |-> <<TranscriptEvent(data.transcript, r.label, speakerId, data.confidence)>>,
       invoked |-> Emit("transcript").invoked,
       looked |-> <<speakerId>>,
       threw |-> FALSE]

\* mutant: interim results are emitted too
HandleMessage_IgnoresFinal(map, data) ==
  IF data.kind # "object" THEN NoEffect(map)
  ELSE IF data.type = "Metadata" THEN NoEffect(map)
  ELSE IF data.shape = "alt" /\ data.transcript # "" THEN EmitTranscript(map, data)
  ELSE NoEffect(map)

\* mutant: the transcript is classified before the metadata check
HandleMessage_TranscriptFirst(map, data) ==
  IF data.kind # "object" THEN NoEffect(map)
  ELSE IF data.shape = "alt" /\ data.transcript # "" /\ data.is_final
  THEN EmitTranscript(map, data)
  ELSE NoEffect(map)

\* mutant: the payload is parsed outside the try block
HandleMessage_ParseOutsideTry(map, data) ==
  IF data.kind = "garbage" THEN [NoEffect(map) EXCEPT !.threw = TRUE]
  ELSE IF data.kind # "object" THEN NoEffect(map)
  ELSE IF data.type = "Metadata" THEN NoEffect(map)
  ELSE IF data.shape = "alt" /\ data.transcript # "" /\ data.is_final
  THEN EmitTranscript(map, data)
  ELSE NoEffect(map)

HandleMessage(map, data) ==
  IF data.kind # "object" THEN NoEffect(map)
  ELSE IF data.type = "Metadata" THEN NoEffect(map)
  ELSE IF data.shape = "alt" /\ data.transcript # "" /\ data.is_final
  THEN EmitTranscript(map, data)
  ELSE NoEffect(map)

RECURSIVE SeenAll(_, _)
SeenAll(seen, ids) ==
  IF ids = <<>> THEN seen ELSE SeenAll(Seen(seen, Head(ids)), Tail(ids))

\* history: the label each id was emitted with in the caller's session
NoteLabels(emitted) ==
  IF emitted = <<>> \/ session # "active" THEN sessionLabels
  ELSE [sessionLabels EXCEPT ![emitted[1].speakerId] = emitted[1].speaker]

(***************************************************************************)
(* socket.onmessage: a message arrives on a socket that has opened and has *)
(* not yet reported its close.                                             *)
(***************************************************************************)
OnMessage(c, data) ==
  /\ c \in DOMAIN chans
  /\ chans[c].opened
  /\ chans[c].st \in {"open", "closing"}
  /\ LET h == HandleMessage(speakerMap, data)
     IN  /\ speakerMap' = h.map
         /\ firstSeen' = SeenAll(firstSeen, h.looked)
         /\ sessionLabels' = NoteLabels(h.emitted)
         /\ out' = Out("onmessage", data, h.emitted, h.invoked, h.threw, "none", "")
  /\ UNCHANGED <<socket, isConnected, reconnectAttempts, listeners, chans, nextChan,
                 timers, session, abnormalRun, failedRun, sinceOpen>>

(***************************************************************************)
(* transcribeRecording(audioBlob).  The session state is read and written  *)
(* only after the last await, so the call is one step, taken when the      *)
(* response has arrived.                                                   *)
(***************************************************************************)
Response(ok, status, body, shape, transcript, hasWords, words) ==
  [ok |-> ok, status |-> status, body |-> body, shape |-> shape,
   transcript |-> transcript, hasWords |-> hasWords, words |-> words]

RECURSIVE Join(_, _)
Join(strs, sep) ==
  IF strs = <<>> THEN ""
  ELSE IF Len(strs) = 1 THEN strs[1]
  ELSE strs[1] \o sep \o Join(Tail(strs), sep)

\* w.punctuated_word || w.word
WordText(w) == IF w.punctuated_word # "" THEN w.punctuated_word ELSE w.word

\* the body of "if (currentWords.length)": label the pending segment and push its line
Flush(acc) ==
  IF acc.currentWords # <<>>
  THEN LET r == GetSpeakerLabel(acc.map, acc.currentSpeaker)
       IN  [acc EXCEPT !.map = r.map,
                       !.lines = Append(@, r.label \o ": " \o Join(acc.currentWords, " ")),
                       !.looked = Append(@, acc.currentSpeaker)]
  ELSE acc

RECURSIVE Segment(_, _)
Segment(words, acc) ==
  IF words = <<>> THEN acc
  ELSE LET w == Head(words)
           speaker == IF w.speaker = NoSpeaker THEN 0 ELSE w.speaker
           a1 == IF speaker # acc.currentSpeaker
                 THEN [Flush(acc) EXCEPT !.currentSpeaker = speaker, !.currentWords = <<>>]
                 ELSE acc
       IN  Segment(Tail(words), [a1 EXCEPT !.currentWords = Append(@, WordText(w))])

\* mutant: the segment pending at the end of the loop is not flushed
Transcribe_NoFinalFlush(map, res) ==
  IF ~res.ok
  THEN [threw |-> TRUE, ret |-> "Deepgram: " \o ToString(res.status) \o " " \o res.body,
        map |-> map, reset |-> FALSE, looked |-> <<>>]
  ELSE IF res.shape # "alt"
  THEN [threw |-> FALSE, ret |-> "", map |-> map, reset |-> FALSE, looked |-> <<>>]
  ELSE LET words == IF res.hasWords THEN res.words ELSE <<>>
       IN  IF words = <<>>
           THEN [threw |-> FALSE, ret |-> res.transcript, map |-> map, reset |-> FALSE,
                 looked |-> <<>>]
           ELSE LET acc == Segment(words,
                                 [map |-> EmptyMap, lines |-> <<>>,
                                  currentSpeaker |-> NoSpeaker, currentWords |-> <<>>,
                                  looked |-> <<>>])
                IN  [threw |-> FALSE, ret |-> Join(acc.lines, "\n"), map |-> acc.map,
                     reset |-> TRUE, looked |-> acc.looked]

\* mutant: segmentation allocates from the table as the call found it
Transcribe_KeepsTable(map, res) ==
  IF ~res.ok
  THEN [threw |-> TRUE, ret |-> "Deepgram: " \o ToString(res.status) \o " " \o res.body,
        map |-> map, reset |-> FALSE, looked |-> <<>>]
  ELSE IF res.shape # "alt"
  THEN [threw |-> FALSE, ret |-> "", map |-> map, reset |-> FALSE, looked |-> <<>>]
  ELSE LET words == IF res.hasWords THEN res.words ELSE <<>>
       IN  IF words = <<>>
           THEN [threw |-> FALSE, ret |-> res.transcript, map |-> map, reset |-> FALSE,
                 looked |-> <<>>]
           ELSE LET acc == Flush(Segment(words,
                                 [map |-> map, lines |-> <<>>,
                                  currentSpeaker |-> NoSpeaker, currentWords |-> <<>>,
                                  looked |-> <<>>]))
                IN  [threw |-> FALSE, ret |-> Join(acc.lines, "\n"), map |-> acc.map,
                     reset |-> FALSE, looked |-> acc.looked]

\* mutant: a flat transcript is returned as a line of the first speaker
Transcribe_LabelsFlat(map, res) ==
  IF ~res.ok
  THEN [threw |-> TRUE, ret |-> "Deepgram: " \o ToString(res.status) \o " " \o res.body,
        map |-> map, reset |-> FALSE, looked |-> <<>>]
  ELSE IF res.shape # "alt"
  THEN [threw |-> FALSE, ret |-> "", map |-> map, reset |-> FALSE, looked |-> <<>>]
  ELSE LET words == IF res.hasWords THEN res.words ELSE <<>>
       IN  IF words = <<>>
           THEN [threw |-> FALSE, ret |-> SpeakerLabelAt(0) \o ": " \o res.transcript,
                 map |-> map, reset |-> FALSE, looked |-> <<>>]
           ELSE LET acc == Flush(Segment(words,
                                 [map |-> EmptyMap, lines |-> <<>>,
                                  currentSpeaker |-> NoSpeaker, currentWords |-> <<>>,
                                  looked |-> <<>>]))
                IN  [threw |-> FALSE, ret |-> Join(acc.lines, "\n"), map |-> acc.map,
                     reset |-> TRUE, looked |-> acc.looked]

\* mutant: the message of the error leaves out the body of the response
Transcribe_StatusOnly(map, res) ==
  IF ~res.ok
  THEN [threw |-> TRUE, ret |-> "Deepgram: " \o ToString(res.status),
        map |-> map, reset |-> FALSE, looked |-> <<>>]
  ELSE IF res.shape # "alt"
  THEN [threw |-> FALSE, ret |-> "", map |-> map, reset |-> FALSE, looked |-> <<>>]
  ELSE LET words == IF res.hasWords THEN res.words ELSE <<>>
       IN  IF words = <<>>
           THEN [threw |-> FALSE, ret |-> res.transcript, map |-> map, reset |-> FALSE,
                 looked |-> <<>>]
           ELSE LET acc == Flush(Segment(words,
                                 [map |-> EmptyMap, lines |-> <<>>,
                                  currentSpeaker |-> NoSpeaker, currentWords |-> <<>>,
                                  looked |-> <<>>]))
                IN  [threw |-> FALSE, ret |-> Join(acc.lines, "\n"), map |-> acc.map,
                     reset |-> TRUE, looked |-> acc.looked]

\* mutant: the table is emptied when the call starts
Transcribe_ResetsFirst(map, res) ==
  IF ~res.ok
  THEN [threw |-> TRUE, ret |-> "Deepgram: " \o ToString(res.status) \o " " \o res.body,
        map |-> EmptyMap, reset |-> TRUE, looked |-> <<>>]
  ELSE IF res.shape # "alt"
  THEN [threw |-> FALSE, ret |-> "", map |-> EmptyMap, reset |-> TRUE, looked |-> <<>>]
  ELSE LET words == IF res.hasWords THEN res.words ELSE <<>>
       IN  IF words = <<>>
           THEN [threw |-> FALSE, ret |-> res.transcript, map |-> EmptyMap, reset |-> TRUE,
                 looked |-> <<>>]
           ELSE LET acc == Flush(Segment(words,
                                 [map |-> EmptyMap, lines |-> <<>>,
                                  currentSpeaker |-> NoSpeaker, currentWords |-> <<>>,
                                  looked |-> <<>>]))
                IN  [threw |-> FALSE, ret |-> Join(acc.lines, "\n"), map |-> acc.map,
                     reset |-> TRUE, looked |-> acc.looked]

\* the result: threw, the returned text or the message of the error, the new table
Transcribe(map, res) ==
  IF ~res.ok
  THEN [threw |-> TRUE, ret |-> "Deepgram: " \o ToString(res.status) \o " " \o res.body,
        map |-> map, reset |-> FALSE, looked |-> <<>>]
  ELSE IF res.shape # "alt"
  THEN [threw |-> FALSE, ret |-> "", map |-> map, reset |-> FALSE, looked |-> <<>>]
  ELSE LET words == IF res.hasWords THEN res.words ELSE <<>>
       IN  IF words = <<>>
           THEN [threw |-> FALSE, ret |-> res.transcript, map |-> map, reset |-> FALSE,
                 looked |-> <<>>]
           ELSE LET acc == Flush(Segment(words,
                                 [map |-> EmptyMap, lines |-> <<>>,
                                  currentSpeaker |-> NoSpeaker, currentWords |-> <<>>,
                                  looked |-> <<>>]))
                IN  [threw |-> FALSE, ret |-> Join(acc.lines, "\n"), map |-> acc.map,
                     reset |-> TRUE, looked |-> acc.looked]

TranscribeRecording(res) ==
  /\ LET t == Transcribe(speakerMap, res)
     IN  /\ speakerMap' = t.map
         /\ firstSeen' = SeenAll(IF t.reset THEN <<>> ELSE firstSeen, t.looked)
         /\ out' = Out("transcribe", res, <<>>, <<>>, t.threw, "none", t.ret)
  /\ UNCHANGED <<socket, isConnected, reconnectAttempts, listeners, chans, nextChan,
                 timers, session, sessionLabels, abnormalRun, failedRun, sinceOpen>>

\* the responses of the batch endpoint tried in Spec
StreamResponses ==
  {Response(FALSE, 401, "denied", "noresults", "", FALSE, <<>>),
   Response(TRUE, 200, "", "noalts", "", FALSE, <<>>),
   Response(TRUE, 200, "", "alt", "hello world", FALSE, <<>>),
   Response(TRUE, 200, "", "alt", "hello world", TRUE, <<>>),
   Response(TRUE, 200, "", "alt", "hi there bye", TRUE,
            <<Word("hi", "Hi", 0), Word("there", "", NoSpeaker), Word("bye", "", 1)>>),
   Response(TRUE, 200, "", "alt", "bye hi", TRUE,
            <<Word("bye", "", 1), Word("hi", "", 0), Word("bye", "", 1)>>)}

\* the words of the batch responses tried in SpecBatch: a raw-only word and a
\* word with a punctuated form, each with no speaker or one of the speakers
BatchWords ==
  {Word("yo", "", s) : s \in {NoSpeaker} \cup 0..MaxBatchSpeaker}
  \cup {Word("hi", "Hi,", s) : s \in {NoSpeaker} \cup 0..MaxBatchSpeaker}

BatchWordLists ==
  UNION {[1..n -> BatchWords] : n \in 1..MaxWords}
  \cup {<<Word("hi", "", 0), Word("there", "", 0), Word("bye", "", 1)>>,
        <<Word("yo", "", 0), Word("hi", "Hi,", 0), Word("yo", "", 1), Word("hi", "Hi,", 1),
          Word("yo", "", NoSpeaker)>>}

\* the responses of the batch endpoint tried in SpecBatch
BatchResponses ==
  {Response(FALSE, 401, "denied", "noresults", "", FALSE, <<>>),
   Response(FALSE, 500, "", "noresults", "", FALSE, <<>>),
   Response(TRUE, 200, "", "noresults", "", FALSE, <<>>),
   Response(TRUE, 200, "", "noalts", "", FALSE, <<>>),
   Response(TRUE, 200, "", "emptyalts", "", FALSE, <<>>),
   Response(TRUE, 200, "", "alt", "", FALSE, <<>>),
   Response(TRUE, 200, "", "alt", "hello world", FALSE, <<>>),
   Response(TRUE, 200, "", "alt", "hello world", TRUE, <<>>)}
  \cup {Response(TRUE, 200, "", "alt", "flat", TRUE, ws) : ws \in BatchWordLists}

(***************************************************************************)
(* Specifications.  Spec is the whole session with MaxStreamChannels       *)
(* channels.  SpecReconnect is the connection lifecycle alone with         *)
(* MaxChannels channels: no callback is registered, no message arrives and *)
(* no label is looked up, none of which the lifecycle handlers read except *)
(* onerror, whose claims are checked under Spec.  SpecLabels is the        *)
(* allocator alone over the ids 0..MaxWideId: a call presents an id        *)
(* already seen, or the smallest or the largest id not seen yet.           *)
(***************************************************************************)
Lifecycle(budget) ==
  \/ Connect(budget)
  \/ \E c \in 1..budget : OnOpen(c)
  \/ \E c \in 1..budget : OnError(c)
  \/ \E c \in 1..budget, code \in CloseCodes : OnClose(c, code)
  \/ \E i \in 1..budget : TimerFire(i, budget)
  \/ Close
  \/ SendAudio

Next ==
  \/ \E e \in EventNames, cb \in Callbacks : On(e, cb)
  \/ Lifecycle(MaxStreamChannels)
  \/ \E c \in 1..MaxStreamChannels, data \in Msgs : OnMessage(c, data)
  \/ \E id \in SpeakerIds : LabelFor(id)
  \/ \E res \in StreamResponses : TranscribeRecording(res)

Spec == Init /\ [][Next]_vars

NextReconnect == Lifecycle(MaxChannels)

SpecReconnect == Init /\ [][NextReconnect]_vars

LabelInputs ==
  LET unseen == WideIds \ DOMAIN speakerMap
  IN  DOMAIN speakerMap \cup (IF unseen = {} THEN {} ELSE {Min(unseen), Max(unseen)})

NextLabels ==
  \/ \E id \in LabelInputs : LabelFor(id)
  \/ Close

SpecLabels == Init /\ [][NextLabels]_vars

\* the batch path alone: transcribeRecording on a table that earlier calls,
\* labelFor and close() have left in any state
NextBatch ==
  \/ \E res \in BatchResponses : TranscribeRecording(res)
  \/ \E id \in SpeakerIds : LabelFor(id)
  \/ Close

SpecBatch == Init /\ [][NextBatch]_vars

\* the messages tried in SpecEmit: a final transcript, a Metadata message
EmitMsgs ==
  {Msg("object", "Results", "alt", "hello", 90, TRUE, TRUE, <<Word("w", "", 0)>>),
   Msg("object", "Metadata", "nochannel", "", 0, FALSE, FALSE, <<>>)}

\* the emitter: up to MaxEmitListeners callbacks registered at any moment of
\* a session whose channels open, receive messages, fail and close
NextEmit ==
  \/ \E e \in EventNames, cb \in EmitCallbacks : Register(e, cb, MaxEmitListeners)
  \/ Connect(MaxStreamChannels)
  \/ \E c \in 1..MaxStreamChannels : OnOpen(c)
  \/ \E c \in 1..MaxStreamChannels : OnError(c)
  \/ \E c \in 1..MaxStreamChannels : OnClose(c, AbnormalCode)
  \/ \E c \in 1..MaxStreamChannels, data \in EmitMsgs : OnMessage(c, data)

SpecEmit == Init /\ [][NextEmit]_vars

\* mutant: the caller looks at the channel handle only
CallerConnect_HandleOnly(budget) ==
  /\ socket = NoSocket
  /\ Connect(budget)

\* connect() of a caller who calls it only while no channel of the session
\* exists (none that has not reported its close) and no reconnection timer is
\* pending
CallerConnect(budget) ==
  /\ DOMAIN chans = {}
  /\ timers = <<>>
  /\ Connect(budget)

\* the lifecycle with that caller
NextSolo ==
  \/ CallerConnect(MaxChannels)
  \/ \E c \in 1..MaxChannels : OnOpen(c)
  \/ \E c \in 1..MaxChannels : OnError(c)
  \/ \E c \in 1..MaxChannels, code \in CloseCodes : OnClose(c, code)
  \/ \E i \in 1..MaxChannels : TimerFire(i, MaxChannels)
  \/ Close
  \/ SendAudio

SpecSolo == Init /\ [][NextSolo]_vars

\* the one connect() of a caller whose backend never accepts a connection
FirstConnect ==
  /\ nextChan = 1
  /\ Connect(MaxChannels)

\* a backend that never accepts: every channel reports an error before it
\* opens and then closes abnormally.  The browser delivers the error and the
\* close event of a failed socket and fires every pending timer: weak fairness
\* of the three.  The caller registers listeners and sends audio when it likes.
NextFailing ==
  \/ FirstConnect
  \/ \E c \in 1..MaxChannels : OnError(c)
  \/ \E c \in 1..MaxChannels : OnClose(c, AbnormalCode)
  \/ \E i \in 1..MaxChannels : TimerFire(i, MaxChannels)
  \/ \E e \in EventNames, cb \in Callbacks : On(e, cb)
  \/ SendAudio

SpecFailing ==
  /\ Init
  /\ [][NextFailing]_vars
  /\ WF_vars(\E c \in 1..MaxChannels : OnError(c))
  /\ WF_vars(\E c \in 1..MaxChannels : OnClose(c, AbnormalCode))
  /\ WF_vars(\E i \in 1..MaxChannels : TimerFire(i, MaxChannels))

(***************************************************************************)
(* Properties.                                                             *)
(***************************************************************************)
\* the step appends one timer / leaves the timers alone
Scheduled == Len(timers') = Len(timers) + 1 /\ SubSeq(timers', 1, Len(timers)) = timers
NotScheduled == timers' = timers

\* C1: every close event sets the status to disconnected, and it schedules a
\* reconnection exactly when its code is not 1000 and the counter is below 3
\* at that moment; a close with code 1000 never schedules one.
C1_CloseSchedulesIff ==
  [][out'.op = "onclose" =>
       /\ isConnected' = FALSE
       /\ Scheduled \/ NotScheduled
       /\ Scheduled <=> (out'.arg # 1000 /\ reconnectAttempts < 3)
       /\ out'.arg = 1000 => NotScheduled]_vars

\* C1 witness: a close with code 1001 at counter 0 has scheduled the only timer.
C1_Witness ==
  /\ out.op = "onclose" /\ out.arg = 1001
  /\ reconnectAttempts = 1 /\ timers = <<2000>> /\ ~isConnected

\* C2 as stated: after 3 consecutive close events with a code other than 1000,
\* a 4th such close schedules no reconnection and the status is disconnected.
C2_AsStated ==
  [][(abnormalRun >= 3 /\ out'.op = "onclose" /\ out'.arg # 1000) =>
       (NotScheduled /\ isConnected' = FALSE)]_vars

\* C2 amended: after 3 consecutive close events with a code other than 1000
\* and no open event between them, a 4th such close schedules no reconnection
\* and the status is disconnected.
C2_CeilingWithoutOpen ==
  [][(failedRun >= 3 /\ out'.op = "onclose" /\ out'.arg # 1000) =>
       (NotScheduled /\ isConnected' = FALSE)]_vars

\* C2 witness: the 4th abnormal close in a row has been handled, nothing pending.
C2_Witness ==
  /\ out.op = "onclose" /\ out.arg # 1000
  /\ failedRun = 4 /\ timers = <<>> /\ ~isConnected /\ reconnectAttempts = 3

\* C3: the promise of connect() resolves when its channel reports open and
\* rejects when its channel reports an error before opening; the open handler
\* sets the status to connected and the counter to 0.
C3_ConnectSettles ==
  [][/\ out'.op = "onopen" =>
          /\ chans[out'.arg].promise = "pending"
          /\ chans'[out'.arg].promise = "resolved"
          /\ isConnected' = TRUE
          /\ reconnectAttempts' = 0
     /\ (out'.op = "onerror" /\ ~chans[out'.arg].opened) =>
          chans'[out'.arg].promise = "rejected"]_vars

\* the session fields of the instance, the sockets and the timers
Instance == <<socket, isConnected, reconnectAttempts, speakerMap, listeners, chans,
              nextChan, timers>>

\* C4: close() never throws and leaves no channel handle, status disconnected
\* and an empty table, so that the next labelFor(0) returns "Speaker A"; a
\* second close() changes nothing.
C4_CloseResets ==
  [][/\ out'.op = "close" =>
          /\ ~out'.threw
          /\ socket' = NoSocket
          /\ isConnected' = FALSE
          /\ speakerMap' = EmptyMap
          /\ out.op = "close" => Instance' = Instance
     /\ (out.op = "close" /\ out'.op = "labelFor" /\ out'.arg = 0) =>
          out'.ret = "Speaker A"]_vars

\* C4 witness: close() was called with a reconnection timer pending and a
\* channel that it has moved to closing.
C4_Witness ==
  /\ out.op = "close" /\ timers # <<>>
  /\ \E c \in DOMAIN chans : chans[c].st = "closing"
  /\ socket = NoSocket /\ speakerMap = EmptyMap

\* C5: close() leaves the pending reconnection timers pending, and a timer
\* firing after close() creates a new channel and makes it the current one.
C5_TimerSurvivesClose ==
  [][/\ out'.op = "close" => timers' = timers
     /\ (out'.op = "timer" /\ session = "closed") =>
          /\ socket' # NoSocket
          /\ socket' \notin DOMAIN chans
          /\ chans'[socket'].st = "connecting"
          /\ Len(timers') = Len(timers) - 1]_vars

\* C5 witness: the caller has closed the session and not connected again, yet
\* the current channel, created by a timer, has opened and the status is
\* connected.
C5_Witness ==
  /\ session = "closed" /\ out.op = "onopen" /\ out.arg = socket
  /\ isConnected /\ chans[socket].st = "open"

\* what the spec says of a message: it parses, is not Metadata, has a first
\* alternative with a non-empty transcript and is marked final
FinalTranscript(m) ==
  /\ m.kind = "object" /\ m.type # "Metadata"
  /\ m.shape = "alt" /\ m.transcript # "" /\ m.is_final

\* C6: handleMessage emits a transcript event exactly for the messages that
\* are not Metadata, have a first alternative with a non-empty transcript and
\* are final, and then exactly one; an interim or empty-transcript message
\* emits none and leaves the table as it was.
C6_EmitIff ==
  [][out'.op = "onmessage" =>
       /\ Len(out'.emitted) = (IF FinalTranscript(out'.arg) THEN 1 ELSE 0)
       /\ \A i \in 1..Len(out'.emitted) : out'.emitted[i].event = "transcript"
       /\ (~out'.arg.is_final \/ out'.arg.transcript = "") =>
            (out'.emitted = <<>> /\ speakerMap' = speakerMap)]_vars

\* C6 witness: a final message with a non-empty transcript has been handled
\* and one event was emitted.
C6_Witness ==
  /\ out.op = "onmessage" /\ FinalTranscript(out.arg) /\ Len(out.emitted) = 1

\* the labels by allocation rank, written out
RankLabels ==
  <<"Speaker A", "Speaker B", "Speaker C", "Speaker D", "Speaker E", "Speaker F",
    "Speaker G", "Speaker H", "Speaker I", "Speaker J", "Speaker 10", "Speaker 11",
    "Speaker 12", "Speaker 13", "Speaker 14">>

\* the speaker id the spec takes from a message: that of the first word, 0
\* when there is no word list, no word or no speaker on the first word
SpecSpeakerId(m) ==
  IF ~m.hasWords THEN 0
  ELSE IF Len(m.words) = 0 THEN 0
  ELSE IF m.words[1].speaker = NoSpeaker THEN 0
  ELSE m.words[1].speaker

\* C7: the event emitted for a final message with a non-empty transcript
\* carries the message's text and confidence, is_final = true, the speaker id
\* of the first word (0 by default) and the label the allocator gives that id
\* in the current table: the one it has, or the next by rank.
C7_EventFields ==
  [][(out'.op = "onmessage" /\ out'.emitted # <<>>) =>
       LET m == out'.arg
           ev == out'.emitted[1]
           id == SpecSpeakerId(m)
       IN  /\ ev.text = m.transcript
           /\ ev.confidence = m.confidence
           /\ ev.is_final = TRUE
           /\ ev.speakerId = id
           /\ ev.speaker = (IF id \in DOMAIN speakerMap THEN speakerMap[id]
                            ELSE RankLabels[Cardinality(DOMAIN speakerMap) + 1])
           /\ speakerMap'[id] = ev.speaker]_vars

\* C7 witness: "hello" spoken by speaker 1 on a fresh table is emitted as
\* Speaker A with speakerId 1.
C7_Witness ==
  /\ out.op = "onmessage"
  /\ out.arg.words = <<Word("w", "", 1)>>
  /\ out.emitted = <<TranscriptEvent("hello", "Speaker A", 1, 90)>>
  /\ speakerMap = (1 :> "Speaker A")

\* C8: a message of type Metadata emits nothing and leaves the table as it
\* was, whatever else it carries.
C8_MetadataSilent ==
  [][(out'.op = "onmessage" /\ out'.arg.kind = "object" /\ out'.arg.type = "Metadata") =>
       (out'.emitted = <<>> /\ out'.invoked = <<>> /\ speakerMap' = speakerMap)]_vars

\* C8 witness: a Metadata message that carries a final, non-empty transcript
\* alternative has been handled without an event.
C8_Witness ==
  /\ out.op = "onmessage" /\ out.arg.type = "Metadata"
  /\ out.arg.shape = "alt" /\ out.arg.transcript # "" /\ out.arg.is_final
  /\ out.emitted = <<>>

\* the position of an id in the history of first lookups
RankOf(seen, id) == CHOOSE r \in 1..Len(seen) : seen[r] = id

\* C9: after any sequence of labelFor calls from an empty table, the table
\* holds, for the id first seen at rank r, the r-th label of "Speaker A" ..
\* "Speaker J", "Speaker 10", "Speaker 11", ..; the call returns that label;
\* a call with an id already seen returns the label it had and leaves the
\* table as it was.
C9_LabelByRank ==
  [][out'.op = "labelFor" =>
       /\ DOMAIN speakerMap' = {firstSeen'[r] : r \in 1..Len(firstSeen')}
       /\ \A r \in 1..Len(firstSeen') : speakerMap'[firstSeen'[r]] = RankLabels[r]
       /\ out'.ret = RankLabels[RankOf(firstSeen', out'.arg)]
       /\ out'.arg \in DOMAIN speakerMap =>
            (speakerMap' = speakerMap /\ out'.ret = speakerMap[out'.arg])]_vars

\* C9 witness: the 11th distinct id, whose raw value is not 10, got "Speaker 10".
C9_Witness ==
  /\ out.op = "labelFor" /\ out.ret = "Speaker 10" /\ out.arg # 10
  /\ Len(firstSeen) = 11 /\ firstSeen[11] = out.arg

\* C10: within one session of the caller, from connect() to close(), two
\* emitted transcript events with the same raw speaker id carry the same
\* label.
C10_StableLabels ==
  [][(out'.op = "onmessage" /\ out'.emitted # <<>> /\ session = "active") =>
       LET ev == out'.emitted[1]
       IN  sessionLabels[ev.speakerId] \in {NoLabel, ev.speaker}]_vars

(***************************************************************************)
(* Reading a returned batch transcript: its lines, and the label and the   *)
(* words of a line "label: word word ..".                                  *)
(***************************************************************************)
\* the first position at which sep occurs in s, 0 when it does not occur
IndexOf(s, sep) ==
  LET hits == {i \in 1..(Len(s) - Len(sep) + 1) : SubSeq(s, i, i + Len(sep) - 1) = sep}
  IN  IF hits = {} THEN 0 ELSE Min(hits)

RECURSIVE Split(_, _)
Split(s, sep) ==
  LET i == IndexOf(s, sep)
  IN  IF i = 0 THEN <<s>>
      ELSE <<SubSeq(s, 1, i - 1)>> \o Split(SubSeq(s, i + Len(sep), Len(s)), sep)

LabelOf(line) == SubSeq(line, 1, IndexOf(line, ": ") - 1)
WordsOf(line) == Split(SubSeq(line, IndexOf(line, ": ") + 2, Len(line)), " ")

\* what the spec says of a word: its speaker (0 when it has none) and its text
\* (the punctuated form if present, else the raw form)
SpecSpeaker(w) == IF w.speaker = NoSpeaker THEN 0 ELSE w.speaker
SpecText(w) == IF w.punctuated_word = "" THEN w.word ELSE w.punctuated_word

\* the maximal runs of consecutive words with the same speaker: the positions
\* where a run starts, the k-th of them, and the position where run k ends
RunStarts(ws) ==
  {i \in 1..Len(ws) : i = 1 \/ SpecSpeaker(ws[i]) # SpecSpeaker(ws[i - 1])}
RunStart(ws, k) ==
  CHOOSE i \in RunStarts(ws) : Cardinality({j \in RunStarts(ws) : j < i}) = k - 1
RunEnd(ws, k) ==
  IF k = Cardinality(RunStarts(ws)) THEN Len(ws) ELSE RunStart(ws, k + 1) - 1

RECURSIVE Flatten(_)
Flatten(seqs) == IF seqs = <<>> THEN <<>> ELSE Head(seqs) \o Flatten(Tail(seqs))

\* a successful response with word-level data
Segmented(res) == res.ok /\ res.shape = "alt" /\ res.hasWords /\ res.words # <<>>

\* C11: for a non-empty word list the returned transcript has one line per
\* maximal run of consecutive words of one speaker (no speaker counts as 0),
\* in encounter order; line k carries exactly the words of run k, the last
\* run included; adjacent lines have different labels; the words of all lines
\* in order are the input words, punctuated form if present, else raw form.
C11_Segmentation ==
  (out.op = "transcribe" /\ Segmented(out.arg)) =>
    LET ws == out.arg.words
        lines == Split(out.ret, "\n")
    IN  /\ ~out.threw
        /\ Len(lines) = Cardinality(RunStarts(ws))
        /\ \A k \in 1..Len(lines) :
             WordsOf(lines[k]) =
               [i \in 1..(RunEnd(ws, k) - RunStart(ws, k) + 1) |->
                  SpecText(ws[RunStart(ws, k) + i - 1])]
        /\ \A k \in 1..(Len(lines) - 1) : LabelOf(lines[k]) # LabelOf(lines[k + 1])
        /\ Flatten([k \in 1..Len(lines) |-> WordsOf(lines[k])]) =
             [i \in 1..Len(ws) |-> SpecText(ws[i])]

\* C11 witness: [hi/0, there/0, bye/1] has been transcribed.
C11_Witness ==
  /\ out.op = "transcribe"
  /\ out.arg.words = <<Word("hi", "", 0), Word("there", "", 0), Word("bye", "", 1)>>
  /\ out.ret = "Speaker A: hi there\nSpeaker B: bye"

\* the speakers of a word list in the order of their first word
SpeakerOrder(ws) == SeenAll(<<>>, [i \in 1..Len(ws) |-> SpecSpeaker(ws[i])])

\* C12: the labels of a batch transcript built from a word list come from an
\* empty table in first-seen order of the speakers of the list, whatever the
\* table held before the call: the first line is labelled "Speaker A", the
\* lines of one speaker carry one label, two speakers never share a label,
\* and the table after the call holds the speakers of the list and no other.
C12_FreshLabels ==
  (out.op = "transcribe" /\ Segmented(out.arg)) =>
    LET ws == out.arg.words
        lines == Split(out.ret, "\n")
        order == SpeakerOrder(ws)
        spk(k) == SpecSpeaker(ws[RunStart(ws, k)])
    IN  /\ Len(lines) = Cardinality(RunStarts(ws))
        /\ LabelOf(lines[1]) = "Speaker A"
        /\ \A j, k \in 1..Len(lines) :
             (spk(j) = spk(k)) <=> (LabelOf(lines[j]) = LabelOf(lines[k]))
        /\ \A k \in 1..Len(lines) : LabelOf(lines[k]) = RankLabels[RankOf(order, spk(k))]
        /\ DOMAIN speakerMap = {order[r] : r \in 1..Len(order)}
        /\ \A r \in 1..Len(order) : speakerMap[order[r]] = RankLabels[r]

\* C12 witness: speaker 1 speaks first and again after speaker 0: it is
\* "Speaker A" in both of its lines, speaker 0 is "Speaker B".
C12_Witness ==
  /\ out.op = "transcribe"
  /\ out.arg.words = <<Word("yo", "", 1), Word("hi", "Hi,", 0), Word("yo", "", 1)>>
  /\ out.ret = "Speaker A: yo\nSpeaker B: Hi,\nSpeaker A: yo"
  /\ speakerMap = (0 :> "Speaker B" @@ 1 :> "Speaker A")

\* C13: a successful batch response whose first channel has no alternative
\* returns the empty string; one whose first alternative has no word list or
\* an empty one returns the flat transcript of that alternative as it is, with
\* no speaker label in front.
C13_FlatTranscript ==
  (out.op = "transcribe" /\ out.arg.ok) =>
    /\ out.arg.shape # "alt" => (out.ret = "" /\ ~out.threw)
    /\ (out.arg.shape = "alt" /\ (~out.arg.hasWords \/ out.arg.words = <<>>)) =>
         /\ out.ret = out.arg.transcript
         /\ IndexOf(out.ret, "Speaker ") = 0
         /\ ~out.threw

\* C13 witness: a response with an empty word list and the flat transcript
\* "hello world" has returned "hello world".
C13_Witness ==
  /\ out.op = "transcribe" /\ out.arg.ok /\ out.arg.shape = "alt"
  /\ out.arg.hasWords /\ out.arg.words = <<>>
  /\ out.ret = "hello world"

\* C14: a batch call that receives a non-success status throws an error whose
\* message contains the status code and the body text, returns no transcript
\* and leaves the channel handle, the status, the counter and the table (and
\* the listeners, the sockets and the timers) as they were.
C14_HttpFailure ==
  [][(out'.op = "transcribe" /\ ~out'.arg.ok) =>
       /\ out'.threw
       /\ IndexOf(out'.ret, ToString(out'.arg.status)) > 0
       /\ IndexOf(out'.ret, out'.arg.body) > 0
       /\ Instance' = Instance]_vars

\* C14 witness: a 401 has been thrown at a connected session whose table
\* holds a label.
C14_Witness ==
  /\ out.op = "transcribe" /\ out.arg.status = 401 /\ out.threw
  /\ out.ret = "Deepgram: 401 denied"
  /\ isConnected /\ socket # NoSocket /\ speakerMap # EmptyMap

\* the speakers of the word list of a response with word-level data
SpeakersOf(res) ==
  IF Segmented(res) THEN {SpecSpeaker(res.words[i]) : i \in 1..Len(res.words)} ELSE {}

\* C15 as stated: every batch call empties the table when it starts, whatever
\* its outcome: after the call the table holds no id but those the call
\* itself has labelled.
C15_AsStated ==
  [][out'.op = "transcribe" => DOMAIN speakerMap' = SpeakersOf(out'.arg)]_vars

\* C15 amended: a batch call empties the table only when the response has a
\* non-empty word list, and then the table holds after the call the speakers
\* of that list and no other; after an HTTP failure, a response without
\* alternative or a flat transcript the table is as it was before the call.
C15_ClearedWithWords ==
  [][out'.op = "transcribe" =>
       IF Segmented(out'.arg)
       THEN DOMAIN speakerMap' = SpeakersOf(out'.arg)
       ELSE speakerMap' = speakerMap]_vars

\* C15 witness: a batch call has failed with a 401 and the table still holds
\* two labels.
C15_Witness ==
  /\ out.op = "transcribe" /\ ~out.arg.ok /\ out.threw
  /\ Cardinality(DOMAIN speakerMap) = 2

\* C16: sendAudio sends once, on the current channel, when that channel
\* exists and is open; otherwise (no channel, or the current channel is
\* connecting, closing or closed, also with a reconnection timer pending) it
\* sends nothing; it never throws and changes nothing of the session.
C16_SendAudio ==
  [][out'.op = "sendAudio" =>
       /\ ~out'.threw
       /\ Instance' = Instance
       /\ out'.ret \in {"sent", "warn"}
       /\ (out'.ret = "sent") <=>
            (socket # NoSocket /\ socket \in DOMAIN chans /\ chans[socket].st = "open")
       /\ out'.ret = "sent" => out'.arg = socket]_vars

\* C16 witness: sendAudio has only warned while the current channel is still
\* connecting and a reconnection timer is pending.
C16_Witness ==
  /\ out.op = "sendAudio" /\ out.ret = "warn"
  /\ socket \in DOMAIN chans /\ chans[socket].st = "connecting"
  /\ timers # <<>>

\* C17: handleMessage never throws; a payload that does not parse emits no
\* event, invokes no callback and leaves the session as it was, and a final
\* transcript message that follows it is emitted as usual.
C17_MalformedSwallowed ==
  [][out'.op = "onmessage" =>
       /\ ~out'.threw
       /\ out'.arg.kind = "garbage" =>
            (out'.emitted = <<>> /\ out'.invoked = <<>> /\ Instance' = Instance)
       /\ (out.op = "onmessage" /\ out.arg.kind = "garbage" /\ FinalTranscript(out'.arg)) =>
            /\ Len(out'.emitted) = 1
            /\ out'.emitted[1].text = out'.arg.transcript
            /\ out'.emitted[1].speakerId \in DOMAIN speakerMap']_vars

\* C17 witness: an unparsable payload has been handled on a connected session
\* whose table holds a label; nothing was emitted.
C17_Witness ==
  /\ out.op = "onmessage" /\ out.arg.kind = "garbage"
  /\ out.emitted = <<>> /\ ~out.threw
  /\ isConnected /\ speakerMap # EmptyMap

\* C18: for every error event of a channel and every list of registered
\* error listeners, the handler does not throw, every registered error
\* listener receives the event, and if the channel had not opened the promise
\* of its connect() is rejected.
C18_ErrorSurfaced ==
  [][out'.op = "onerror" =>
       /\ ~out'.threw
       /\ out'.emitted = <<ErrorEvent>>
       /\ out'.invoked = listeners["error"]
       /\ ~chans[out'.arg].opened => chans'[out'.arg].promise = "rejected"]_vars

\* the positions of the throwing callbacks in a list of callbacks
Throwing(cbs) == {i \in 1..Len(cbs) : cbs[i] = "bad"}

\* C19: on() appends the callback to the list of its event and to no other;
\* an emission for event e invokes, within the handler that emits, the
\* callbacks registered for e and no other, once each, in registration order,
\* up to and including the first that throws; with no callback registered
\* for e nothing is invoked; a callback's exception reaches the caller of
\* emit (the error handler throws exactly when an error listener throws).
C19_EmitInOrder ==
  [][/\ out'.op = "on" =>
          \E e \in EventNames, cb \in EmitCallbacks :
            listeners' = [listeners EXCEPT ![e] = Append(listeners[e], cb)]
     /\ out'.emitted # <<>> =>
          LET cbs == listeners[out'.emitted[1].event]
          IN  /\ Len(out'.emitted) = 1
              /\ listeners' = listeners
              /\ Throwing(cbs) = {} => out'.invoked = cbs
              /\ Throwing(cbs) # {} => out'.invoked = SubSeq(cbs, 1, Min(Throwing(cbs)))
              /\ cbs = <<>> => out'.invoked = <<>>
              /\ out'.op = "onerror" => (out'.threw <=> Throwing(cbs) # {})]_vars

\* C19 witness: of the error listeners ok, bad, ok2 the first two were
\* invoked, in that order, and the exception left the error handler.
C19_Witness ==
  /\ out.op = "onerror" /\ listeners["error"] = <<"ok", "bad", "ok2">>
  /\ out.invoked = <<"ok", "bad">> /\ out.threw

C22_CounterInRange ==
  reconnectAttempts \in 0..3

\* C22 witness: the counter is at the ceiling with three reconnection timers
\* pending at once and a channel of an overlapping connect() still alive.
C22_Witness ==
  /\ reconnectAttempts = 3
  /\ Len(timers) = 3 /\ Cardinality(DOMAIN chans) = 1

\* the session is at rest: no timer pending, no channel alive, disconnected
Quiescent == timers = <<>> /\ DOMAIN chans = {} /\ ~isConnected

\* C23: after the caller's connect(), when every channel fails before it
\* opens, the session comes to rest and stays there, with 4 channels created
\* in all (3 reconnections) and the counter at 3; every failure rejects the
\* promise of its connect(), which the timer callback catches and logs, and
\* no handler throws.
C23_GivesUp ==
  /\ [](out.op = "onerror" => (~out.threw /\ out.settle = "reject"))
  /\ (nextChan > 1) ~> [](Quiescent /\ nextChan = 5 /\ reconnectAttempts = 3)

\* the channel whose close event the step handles has opened before
ClosedHadOpened == \E c \in DOMAIN chans \ DOMAIN chans' : chans[c].opened

C25_StatusAgrees ==
  isConnected <=> (socket # NoSocket /\ socket \in DOMAIN chans /\ chans[socket].opened)

\* C26: after close() and until the caller calls connect() again, no message
\* that arrives makes the session emit a transcript event or put a label in
\* the table.
C26_SilentAfterClose ==
  [][(session = "closed" /\ out'.op = "onmessage") =>
       (out'.emitted = <<>> /\ speakerMap' = EmptyMap)]_vars

====
